---- MODULE Spec2Model ----
(***************************************************************************)
(* Model of lsst.ts.hop.client: the HopProducer relay lifecycle             *)
(* (hop_producer.py) and the Avro schema helpers (make_avro_schema.py).     *)
(*                                                                          *)
(* One HopProducer instance.  The asyncio event loop runs coroutines        *)
(* (start, close, done) atomically between their await points; every        *)
(* _read_topic call runs in an executor thread and interleaves freely.      *)
(***************************************************************************)
EXTENDS Integers, Sequences, FiniteSets, TLC

\* ------------------------------------------------------------------ bounds
MaxMsgs == 2      \* longest upstream message sequence
MaxItems == 4     \* most items of a payload given to the schema function

\* --------------------------------------------------- make_avro_schema.py
\* _SCALAR_TYPE_DICT: Python type -> Avro type; a missing key is a KeyError.
ScalarTypeDict(py) ==
    CASE py = "bool" -> "boolean"
      [] py = "int" -> "long"
      [] py = "float" -> "double"
      [] py = "str" -> "string"
      [] OTHER -> "KeyError"

\* The three fields both schema functions start with.
FixedFields ==
    << [name |-> "timestamp", type |-> "long", default |-> "0"],
       [name |-> "count", type |-> "long", default |-> "0"],
       [name |-> "beat", type |-> "string", default |-> "default beat content"] >>

\* make_avro_schema_heartbeat(): the schema the topic is provisioned with.
MakeAvroSchemaHeartbeat ==
    [name |-> "scimma.org.sys-heartbeat", type |-> "record", fields |-> FixedFields]

\* Avro type of one payload item (py: its Python type; items: the Python
\* types of its elements when it is a list).
AvroFieldType(item) ==
    IF item.py = "list"
    THEN IF Len(item.items) = 0 THEN "IndexError"
         ELSE IF ScalarTypeDict(item.items[1]) = "KeyError" THEN "KeyError"
         ELSE "array:" \o ScalarTypeDict(item.items[1])
    ELSE ScalarTypeDict(item.py)

RECURSIVE PayloadFields(_)
\* The loop over message.content.items(): one appended field per item, in
\* payload order; the first item without a mapping raises.
PayloadFields(content) ==
    IF Len(content) = 0 THEN [err |-> "none", fields |-> << >>]
    ELSE LET t == AvroFieldType(Head(content))
             rest == PayloadFields(Tail(content))
         IN IF t \in {"KeyError", "IndexError"} THEN [err |-> t, fields |-> << >>]
            ELSE IF rest.err # "none" THEN rest
            ELSE [err |-> "none",
                  fields |-> << [name |-> Head(content).name, type |-> t,
                                 default |-> Head(content).val] >> \o rest.fields]

\* make_avro_schema_heartbeat_message(message): a schema document, or the
\* error it raises.
MakeAvroSchemaHeartbeatMessage(content) ==
    LET p == PayloadFields(content)
    IN IF p.err # "none" THEN [err |-> p.err]
       ELSE [err |-> "none", name |-> "scimma.org.sys-heartbeat", type |-> "record",
             fields |-> FixedFields \o p.fields]

\* ----------------------------------------------------------------- inputs
\* Upstream message payloads (message.content), as item sequences.
Heartbeat ==
    << [name |-> "timestamp", py |-> "int", items |-> << >>, val |-> "5"],
       [name |-> "count", py |-> "int", items |-> << >>, val |-> "2"],
       [name |-> "beat", py |-> "str", items |-> << >>, val |-> "ok"] >>

Unsupported ==
    << [name |-> "timestamp", py |-> "int", items |-> << >>, val |-> "5"],
       [name |-> "extra", py |-> "NoneType", items |-> << >>, val |-> "None"] >>

Payloads == {Heartbeat, Unsupported}

\* Payload items the schema function is applied to on its own.
PayloadItems ==
    { [name |-> "timestamp", py |-> "int", items |-> << >>, val |-> "5"],
      [name |-> "count", py |-> "int", items |-> << >>, val |-> "2"],
      [name |-> "beat", py |-> "str", items |-> << >>, val |-> "ok"],
      [name |-> "extra", py |-> "float", items |-> << >>, val |-> "1.5"],
      [name |-> "flag", py |-> "bool", items |-> << >>, val |-> "True"],
      [name |-> "tags", py |-> "list", items |-> << "str", "str" >>, val |-> "['a', 'b']"],
      [name |-> "empty", py |-> "list", items |-> << >>, val |-> "[]"],
      [name |-> "nothing", py |-> "NoneType", items |-> << >>, val |-> "None"] }

\* message.content of a sample message: a dict, so no key occurs twice.
SamplePayloads ==
    { c \in UNION {[1 .. n -> PayloadItems] : n \in 0 .. MaxItems} :
        \A i, j \in 1 .. Len(c) : i # j => c[i].name # c[j].name }

\* How the upstream sequence ends after its messages: cleanly or with a
\* transport error.  The read blocks until the message or the end arrives,
\* which may be never.
UpstreamEnds == {"exhausted", "error"}

\* ------------------------------------------------------------------ state
\* The start() invocations: the task __init__ schedules with ensure_future,
\* and the call made by __aenter__ (or by the owner directly).
Starters == {"ctor", "aenter"}

\* asyncio futures that done_task can name: 0 is the one __init__ makes,
\* the others are made by start().
FutIds == 0 .. Cardinality(Starters)

VARIABLES
    auth_set,        \* TRUE iff __init__ bound self.auth (auth == "current")
    upstream,        \* the messages the hop topic delivers, in order
    upEnd,           \* how the sequence ends
    payload,         \* the content of the sample message of a schema call
    derived,         \* what make_avro_schema_heartbeat_message made of it
    topics_made,     \* make_kafka_topics calls made
    kafka_producer,  \* 0 = None, else the id of the producer bound
    producers_made,  \* make_producer calls that returned
    done_task,       \* the future self.done_task names
    fut,             \* future id -> "unmade" | "pending" | its result or error
    writes,          \* future id -> set_result/set_exception calls made on it
    read_topic_task, \* "unset" (no attribute) or the worker it wraps
    task,            \* worker -> state of its run_in_executor future
    spc,             \* start() invocation -> position
    wpc,             \* _read_topic worker -> position
    werr,            \* worker -> the exception it is handling / died of
    nread,           \* worker -> messages its stream delivered
    nextCalls,       \* worker -> next() calls made on its stream
    sendCalls,       \* worker -> send_and_wait calls made
    acked,           \* worker -> send_and_wait calls that returned
    streamCloses,    \* worker -> close calls its stream received
    published,       \* the send_and_wait calls, in call order, each with
                     \* its worker, its message and the value handed over
    cpc,             \* close() caller position
    closeReturned,   \* TRUE once a close() call has returned normally
    dpc,             \* done() caller position
    dAwait,          \* the future the done() caller awaits
    dOut,            \* what the last done() returned or raised
    dPrev            \* what the done() call before the last returned or
                     \* raised, when it awaited the same future; else "none"

vars == << auth_set, upstream, upEnd, payload, derived, topics_made, kafka_producer, producers_made, done_task,
           fut, writes, read_topic_task, task, spc, wpc, werr, nread, nextCalls,
           sendCalls, acked, streamCloses, published, cpc, closeReturned,
           dpc, dAwait, dOut, dPrev >>

envVars == << auth_set, upstream, upEnd, payload, derived >>
startVars == << topics_made, kafka_producer, producers_made, read_topic_task, spc >>
workerVars == << wpc, werr, nread, nextCalls, sendCalls, acked, streamCloses, published >>
closeVars == << cpc, closeReturned >>
doneVars == << dpc, dAwait, dOut, dPrev >>

\* HopProducer.__init__: the state when the constructor returns.  start()
\* is scheduled but has not run; make_kafka_topics has been called once;
\* done_task is utils.make_done_future(), a future already resolved with
\* None; _read_topic_task is not assigned.
Init ==
    /\ auth_set \in BOOLEAN
    /\ upstream \in UNION {[1 .. n -> Payloads] : n \in 0 .. MaxMsgs}
    /\ upEnd \in UpstreamEnds
    /\ payload = << >>
    /\ derived = [err |-> "unset"]
    /\ topics_made = 1
    /\ kafka_producer = 0
    /\ producers_made = 0
    /\ done_task = 0
    /\ fut = [f \in FutIds |-> IF f = 0 THEN "None" ELSE "unmade"]
    /\ writes = [f \in FutIds |-> 0]
    /\ read_topic_task = "unset"
    /\ task = [w \in Starters |-> "none"]
    /\ spc = [s \in Starters |-> "idle"]
    /\ wpc = [w \in Starters |-> "none"]
    /\ werr = [w \in Starters |-> "none"]
    /\ nread = [w \in Starters |-> 0]
    /\ nextCalls = [w \in Starters |-> 0]
    /\ sendCalls = [w \in Starters |-> 0]
    /\ acked = [w \in Starters |-> 0]
    /\ streamCloses = [w \in Starters |-> 0]
    /\ published = << >>
    /\ cpc = "idle"
    /\ closeReturned = FALSE
    /\ dpc = "idle"
    /\ dAwait = 0
    /\ dOut = "none"
    /\ dPrev = "none"

\* asyncio.Future.done()
FutDone(f) == fut[f] # "pending"

\* kafka_factory.make_producer calls made: one by every start() invocation
\* that got past its guard.
MakeProducerCalls == Cardinality({s \in Starters : spc[s] \in {"awaiting", "returned"}})

\* ------------------------------------------------------------- start()
\* start() up to its await: the guard, then the make_producer call.
StartBegin(s) ==
    /\ spc[s] = "idle"
    /\ spc' = [spc EXCEPT ![s] = IF kafka_producer # 0 THEN "raised" ELSE "awaiting"]
    /\ UNCHANGED << envVars, topics_made, kafka_producer, producers_made,
                    read_topic_task, done_task, fut, writes, task, workerVars,
                    closeVars, doneVars >>

\* StartFinish without the new future of line 200.
StartFinish_NoNewFuture(s) ==
    /\ spc[s] = "awaiting"
    /\ producers_made' = producers_made + 1
    /\ kafka_producer' = producers_made + 1
    /\ read_topic_task' = s
    /\ task' = [task EXCEPT ![s] = "pending"]
    /\ wpc' = [wpc EXCEPT ![s] = "queued"]
    /\ spc' = [spc EXCEPT ![s] = "returned"]
    /\ UNCHANGED << envVars, topics_made, done_task, fut, writes, werr, nread,
                    nextCalls, sendCalls, acked, streamCloses, published,
                    closeVars, doneVars >>

\* start() from the return of make_producer to its end: bind the producer,
\* replace done_task by a new future, submit _read_topic to the executor.
StartFinish(s) ==
    /\ spc[s] = "awaiting"
    /\ producers_made' = producers_made + 1
    /\ kafka_producer' = producers_made + 1
    /\ done_task' = producers_made + 1
    /\ fut' = [fut EXCEPT ![producers_made + 1] = "pending"]
    /\ read_topic_task' = s
    /\ task' = [task EXCEPT ![s] = "pending"]
    /\ wpc' = [wpc EXCEPT ![s] = "queued"]
    /\ spc' = [spc EXCEPT ![s] = "returned"]
    /\ UNCHANGED << envVars, topics_made, writes, werr, nread, nextCalls, sendCalls,
                    acked, streamCloses, published, closeVars, doneVars >>

\* ------------------------------------------------- _read_topic (worker)
\* The executor thread begins _read_topic: the done_task guard, then
\* hop.Stream(auth=self.auth, ...), both before the try block.
WorkerEntry(w) ==
    /\ wpc[w] = "queued"
    /\ IF FutDone(done_task)
       THEN wpc' = [wpc EXCEPT ![w] = "raised"] /\ werr' = [werr EXCEPT ![w] = "RuntimeError"]
       ELSE IF ~auth_set
       THEN wpc' = [wpc EXCEPT ![w] = "raised"] /\ werr' = [werr EXCEPT ![w] = "AttributeError"]
       ELSE wpc' = [wpc EXCEPT ![w] = "opening"] /\ UNCHANGED werr
    /\ UNCHANGED << envVars, startVars, done_task, fut, writes, task, nread, nextCalls,
                    sendCalls, acked, streamCloses, published, closeVars, doneVars >>

\* stream.open(...) returns the stream and the for loop asks for the first
\* message.
WorkerOpen(w) ==
    /\ wpc[w] = "opening"
    /\ wpc' = [wpc EXCEPT ![w] = "reading"]
    /\ nextCalls' = [nextCalls EXCEPT ![w] = @ + 1]
    /\ UNCHANGED << envVars, startVars, done_task, fut, writes, task, werr, nread,
                    sendCalls, acked, streamCloses, published, closeVars, doneVars >>

\* stream.open(...) raises (connection or authentication failure): caught
\* by the except clause; no stream was entered, so none is closed.
WorkerOpenFails(w) ==
    /\ wpc[w] = "opening"
    /\ wpc' = [wpc EXCEPT ![w] = "except"]
    /\ werr' = [werr EXCEPT ![w] = "OpenError"]
    /\ UNCHANGED << envVars, startVars, done_task, fut, writes, task, nread, nextCalls,
                    sendCalls, acked, streamCloses, published, closeVars, doneVars >>

\* The pending next() delivers the next message.
WorkerNext(w) ==
    /\ wpc[w] = "reading"
    /\ nread[w] < Len(upstream)
    /\ nread' = [nread EXCEPT ![w] = @ + 1]
    /\ wpc' = [wpc EXCEPT ![w] = "encoding"]
    /\ UNCHANGED << envVars, startVars, done_task, fut, writes, task, werr, nextCalls,
                    sendCalls, acked, streamCloses, published, closeVars, doneVars >>

\* The pending next() ends the iteration: the with block closes the stream
\* and control reaches the else clause (clean end) or the except clause.
WorkerStreamEnds(w) ==
    /\ wpc[w] = "reading"
    /\ nread[w] = Len(upstream)
    /\ streamCloses' = [streamCloses EXCEPT ![w] = @ + 1]
    /\ IF upEnd = "exhausted"
       THEN wpc' = [wpc EXCEPT ![w] = "else"] /\ UNCHANGED werr
       ELSE wpc' = [wpc EXCEPT ![w] = "except"]
            /\ werr' = [werr EXCEPT ![w] = "UpstreamError"]
    /\ UNCHANGED << envVars, startVars, done_task, fut, writes, task, nread, nextCalls,
                    sendCalls, acked, published, closeVars, doneVars >>

\* make_avro_schema_heartbeat_message(message), then the send_and_wait call
\* with its result as the value; an error leaves the with block.
WorkerEncode(w) ==
    /\ wpc[w] = "encoding"
    /\ LET avro_data == MakeAvroSchemaHeartbeatMessage(upstream[nread[w]])
       IN IF avro_data.err # "none"
          THEN /\ wpc' = [wpc EXCEPT ![w] = "except"]
               /\ werr' = [werr EXCEPT ![w] = avro_data.err]
               /\ streamCloses' = [streamCloses EXCEPT ![w] = @ + 1]
               /\ UNCHANGED << sendCalls, published >>
          ELSE /\ wpc' = [wpc EXCEPT ![w] = "sending"]
               /\ sendCalls' = [sendCalls EXCEPT ![w] = @ + 1]
               /\ published' = Append(published,
                      [w |-> w, idx |-> nread[w],
                       value |-> [name |-> avro_data.name, type |-> avro_data.type,
                                  fields |-> avro_data.fields]])
               /\ UNCHANGED << werr, streamCloses >>
    /\ UNCHANGED << envVars, startVars, done_task, fut, writes, task, nread, nextCalls,
                    acked, closeVars, doneVars >>

\* send_and_wait returns its acknowledgment; the for loop asks for the
\* next message.
WorkerSendAcked(w) ==
    /\ wpc[w] = "sending"
    /\ acked' = [acked EXCEPT ![w] = @ + 1]
    /\ wpc' = [wpc EXCEPT ![w] = "reading"]
    /\ nextCalls' = [nextCalls EXCEPT ![w] = @ + 1]
    /\ UNCHANGED << envVars, startVars, done_task, fut, writes, task, werr, nread,
                    sendCalls, streamCloses, published, closeVars, doneVars >>

\* send_and_wait raises (rejection, serialization mismatch, timeout).
WorkerSendFails(w) ==
    /\ wpc[w] = "sending"
    /\ wpc' = [wpc EXCEPT ![w] = "except"]
    /\ werr' = [werr EXCEPT ![w] = "PublishError"]
    /\ streamCloses' = [streamCloses EXCEPT ![w] = @ + 1]
    /\ UNCHANGED << envVars, startVars, done_task, fut, writes, task, nread, nextCalls,
                    sendCalls, acked, published, closeVars, doneVars >>

\* except clause: self.done_task.set_exception(e) on the future done_task
\* names now; on a resolved future it raises InvalidStateError.
WorkerExcept(w) ==
    /\ wpc[w] = "except"
    /\ writes' = [writes EXCEPT ![done_task] = @ + 1]
    /\ IF FutDone(done_task)
       THEN /\ wpc' = [wpc EXCEPT ![w] = "raised"]
            /\ werr' = [werr EXCEPT ![w] = "InvalidStateError"]
            /\ UNCHANGED fut
       ELSE /\ wpc' = [wpc EXCEPT ![w] = "exited"]
            /\ fut' = [fut EXCEPT ![done_task] = werr[w]]
            /\ UNCHANGED werr
    /\ UNCHANGED << envVars, startVars, done_task, task, nread, nextCalls, sendCalls,
                    acked, streamCloses, published, closeVars, doneVars >>

\* WorkerElse storing its result whatever the state of the future.
WorkerElse_Overwrite(w) ==
    /\ wpc[w] = "else"
    /\ writes' = [writes EXCEPT ![done_task] = @ + 1]
    /\ wpc' = [wpc EXCEPT ![w] = "exited"]
    /\ fut' = [fut EXCEPT ![done_task] = "True"]
    /\ UNCHANGED << envVars, startVars, done_task, task, werr, nread, nextCalls,
                    sendCalls, acked, streamCloses, published, closeVars, doneVars >>

\* else clause: self.done_task.set_result(True).
WorkerElse(w) ==
    /\ wpc[w] = "else"
    /\ writes' = [writes EXCEPT ![done_task] = @ + 1]
    /\ IF FutDone(done_task)
       THEN /\ wpc' = [wpc EXCEPT ![w] = "raised"]
            /\ werr' = [werr EXCEPT ![w] = "InvalidStateError"]
            /\ UNCHANGED fut
       ELSE /\ wpc' = [wpc EXCEPT ![w] = "exited"]
            /\ fut' = [fut EXCEPT ![done_task] = "True"]
            /\ UNCHANGED werr
    /\ UNCHANGED << envVars, startVars, done_task, task, nread, nextCalls, sendCalls,
                    acked, streamCloses, published, closeVars, doneVars >>

\* The event loop learns that the worker's function returned or raised and
\* resolves the run_in_executor future, unless that was cancelled.
ExecutorNotify(w) ==
    /\ wpc[w] \in {"exited", "raised"}
    /\ task[w] = "pending"
    /\ task' = [task EXCEPT ![w] = "finished"]
    /\ UNCHANGED << envVars, startVars, done_task, fut, writes, workerVars,
                    closeVars, doneVars >>

\* A cancelled run_in_executor future cancels the submitted call when no
\* thread has begun it: _read_topic then never runs.
CancelPropagates(w) ==
    /\ task[w] = "cancelled"
    /\ wpc[w] = "queued"
    /\ wpc' = [wpc EXCEPT ![w] = "never"]
    /\ UNCHANGED << envVars, startVars, done_task, fut, writes, task, werr, nread,
                    nextCalls, sendCalls, acked, streamCloses, published,
                    closeVars, doneVars >>

\* ------------------------------------------------------------- close()
\* close() down to the done_task test.  Without a _read_topic_task
\* attribute the first line raises AttributeError.  A pending task is
\* cancelled and awaited: the await raises CancelledError at once, which is
\* swallowed.
CloseBegin_NoTest ==
    /\ cpc \in {"idle", "returned", "raised"}
    /\ IF read_topic_task = "unset"
       THEN cpc' = "raised" /\ UNCHANGED << task, closeReturned >>
       ELSE /\ task' = [task EXCEPT ![read_topic_task] =
                           IF @ = "pending" THEN "cancelled" ELSE @]
            /\ cpc' = "setting" /\ UNCHANGED closeReturned
    /\ UNCHANGED << envVars, startVars, done_task, fut, writes, workerVars, doneVars >>

CloseBegin ==
    /\ cpc \in {"idle", "returned", "raised"}
    /\ IF read_topic_task = "unset"
       THEN cpc' = "raised" /\ UNCHANGED << task, closeReturned >>
       ELSE /\ task' = [task EXCEPT ![read_topic_task] =
                           IF @ = "pending" THEN "cancelled" ELSE @]
            /\ IF FutDone(done_task)
               THEN cpc' = "returned" /\ closeReturned' = TRUE
               ELSE cpc' = "setting" /\ UNCHANGED closeReturned
    /\ UNCHANGED << envVars, startVars, done_task, fut, writes, workerVars, doneVars >>

\* close() after the test found done_task unresolved: the warning, then
\* self.done_task.set_result(False).
CloseSet ==
    /\ cpc = "setting"
    /\ writes' = [writes EXCEPT ![done_task] = @ + 1]
    /\ IF FutDone(done_task)
       THEN cpc' = "raised" /\ UNCHANGED << fut, closeReturned >>
       ELSE /\ cpc' = "returned"
            /\ closeReturned' = TRUE
            /\ fut' = [fut EXCEPT ![done_task] = "False"]
    /\ UNCHANGED << envVars, startVars, done_task, task, workerVars, doneVars >>

\* -------------------------------------------------------------- done()
\* done(): await self.done_task.  A resolved future does not suspend.
DoneCall ==
    /\ dpc \in {"idle", "returned"}
    /\ dAwait' = done_task
    /\ dPrev' = IF dpc = "returned" /\ dAwait = done_task THEN dOut ELSE "none"
    /\ IF FutDone(done_task)
       THEN dpc' = "returned" /\ dOut' = fut[done_task]
       ELSE dpc' = "waiting" /\ dOut' = "none"
    /\ UNCHANGED << envVars, startVars, done_task, fut, writes, task, workerVars, closeVars >>

\* DoneWake resuming whatever the state of the awaited future.
DoneWake_NoWait ==
    /\ dpc = "waiting"
    /\ dpc' = "returned"
    /\ dOut' = fut[dAwait]
    /\ UNCHANGED << envVars, startVars, done_task, fut, writes, task, workerVars,
                    closeVars, dAwait, dPrev >>

\* The suspended done() resumes once the future it awaits is resolved.
DoneWake ==
    /\ dpc = "waiting"
    /\ FutDone(dAwait)
    /\ dpc' = "returned"
    /\ dOut' = fut[dAwait]
    /\ UNCHANGED << envVars, startVars, done_task, fut, writes, task, workerVars,
                    closeVars, dAwait, dPrev >>

Next ==
    \/ \E s \in Starters : StartBegin(s)
    \/ \E s \in Starters : StartFinish(s)
    \/ \E w \in Starters : WorkerEntry(w)
    \/ \E w \in Starters : WorkerOpen(w)
    \/ \E w \in Starters : WorkerOpenFails(w)
    \/ \E w \in Starters : WorkerNext(w)
    \/ \E w \in Starters : WorkerStreamEnds(w)
    \/ \E w \in Starters : WorkerEncode(w)
    \/ \E w \in Starters : WorkerSendAcked(w)
    \/ \E w \in Starters : WorkerSendFails(w)
    \/ \E w \in Starters : WorkerExcept(w)
    \/ \E w \in Starters : WorkerElse(w)
    \/ \E w \in Starters : ExecutorNotify(w)
    \/ \E w \in Starters : CancelPropagates(w)
    \/ CloseBegin
    \/ CloseSet
    \/ DoneCall
    \/ DoneWake

Spec == Init /\ [][Next]_vars

\* ------------------------------------- the schema function on its own
\* A constructed HopProducer beside a sample message of any content.
SchemaInit ==
    /\ payload \in SamplePayloads
    /\ derived = [err |-> "unset"]
    /\ auth_set = TRUE
    /\ upstream = << >>
    /\ upEnd = "exhausted"
    /\ topics_made = 1
    /\ kafka_producer = 0
    /\ producers_made = 0
    /\ done_task = 0
    /\ fut = [f \in FutIds |-> IF f = 0 THEN "None" ELSE "unmade"]
    /\ writes = [f \in FutIds |-> 0]
    /\ read_topic_task = "unset"
    /\ task = [w \in Starters |-> "none"]
    /\ spc = [s \in Starters |-> "idle"]
    /\ wpc = [w \in Starters |-> "none"]
    /\ werr = [w \in Starters |-> "none"]
    /\ nread = [w \in Starters |-> 0]
    /\ nextCalls = [w \in Starters |-> 0]
    /\ sendCalls = [w \in Starters |-> 0]
    /\ acked = [w \in Starters |-> 0]
    /\ streamCloses = [w \in Starters |-> 0]
    /\ published = << >>
    /\ cpc = "idle"
    /\ closeReturned = FALSE
    /\ dpc = "idle"
    /\ dAwait = 0
    /\ dOut = "none"
    /\ dPrev = "none"

\* make_avro_schema_heartbeat_message(message) is called on the sample.
DeriveSchema ==
    /\ derived.err = "unset"
    /\ derived' = MakeAvroSchemaHeartbeatMessage(payload)
    /\ UNCHANGED << auth_set, upstream, upEnd, payload, startVars, done_task, fut,
                    writes, task, workerVars, closeVars, doneVars >>

SchemaNext == DeriveSchema

SchemaSpec == SchemaInit /\ [][SchemaNext]_vars

\* ------------------------------------------------------------ properties
RECURSIVE SumOver(_, _)
SumOver(f, S) ==
    IF S = {} THEN 0
    ELSE LET x == CHOOSE y \in S : TRUE IN f[x] + SumOver(f, S \ {x})

\* The errors a worker can hand to set_exception.
LoopErrors == {"OpenError", "UpstreamError", "KeyError", "IndexError", "PublishError"}

\* The outcomes of a relay: Completed, Cancelled, Failed(error).
TerminalOutcomes == {"True", "False"} \cup LoopErrors

\* Every message of the upstream sequence can be encoded.
AllEncodable ==
    \A i \in 1 .. Len(upstream) : MakeAvroSchemaHeartbeatMessage(upstream[i]).err = "none"

\* No stream.open and no send_and_wait has failed.
NoOpenOrSendError == \A w \in Starters : werr[w] \notin {"OpenError", "PublishError"}

\* C1: start() takes effect at most once per instance: every further start()
\* fails at its guard, so no second producer is made and no second read loop
\* is scheduled.
C1_StartOnce ==
    /\ producers_made <= 1
    /\ Cardinality({w \in Starters : wpc[w] # "none"}) <= 1

\* C2: at most one write (set_result or set_exception) is ever attempted on
\* a completion future.
C2_SingleWrite == \A f \in FutIds : writes[f] <= 1

\* C3: for an upstream sequence of N messages that ends cleanly, with no
\* injected error, there are never more than N publish calls, they are made
\* in the order of the messages, and a future holds Completed only when all
\* N publishes have been made and acknowledged.
C3_ExactlyNInOrder ==
    (upEnd = "exhausted" /\ AllEncodable /\ NoOpenOrSendError) =>
        /\ Len(published) <= Len(upstream)
        /\ \A i \in 1 .. Len(published) : published[i].idx = i
        /\ \A f \in FutIds : fut[f] = "True" =>
              /\ Len(published) = Len(upstream)
              /\ SumOver(acked, Starters) = Len(upstream)

\* C4: at most one publish is in flight, and the next() calls and the
\* send_and_wait calls never differ by more than one.
C4_Backpressure ==
    /\ Cardinality({w \in Starters : wpc[w] = "sending"}) <= 1
    /\ SumOver(nextCalls, Starters) - SumOver(sendCalls, Starters) \in {0, 1}

\* C5: a close() call made while the read loop is blocked on an upstream
\* read closes that loop's stream exactly once while it cancels and awaits
\* the loop, and when it returns done_task holds Cancelled.
C5_CancelClosesStream ==
    [][(read_topic_task # "unset" /\ wpc[read_topic_task] = "reading") =>
          /\ (cpc \in {"idle", "returned", "raised"} /\ cpc' \in {"setting", "returned"})
                => streamCloses'[read_topic_task] = 1
          /\ (cpc # "returned" /\ cpc' = "returned")
                => (fut'[done_task'] = "False" /\ streamCloses'[read_topic_task] = 1)]_vars

\* C6: once close() has returned, the read loop it cancelled delivers no
\* further message and makes no further next() or send_and_wait call.
C6_NoActivityAfterClose ==
    [][\A w \in Starters :
          (cpc = "returned" /\ task[w] = "cancelled")
          => (nread'[w] = nread[w] /\ nextCalls'[w] = nextCalls[w]
                /\ sendCalls'[w] = sendCalls[w])]_vars

\* C7: when the upstream sequence raises after delivering k messages, with
\* no other injected error and no close() call, there are never more than k
\* publish calls, no future ever holds Completed, and once a loop has
\* handled the error exactly k publishes were made and a future holds the
\* upstream error.
C7_UpstreamErrorPropagates ==
    (upEnd = "error" /\ AllEncodable /\ NoOpenOrSendError /\ cpc = "idle") =>
        /\ Len(published) <= Len(upstream)
        /\ \A f \in FutIds : fut[f] # "True"
        /\ \A w \in Starters :
              (wpc[w] = "exited" /\ werr[w] = "UpstreamError") =>
                  /\ Len(published) = Len(upstream)
                  /\ \E f \in FutIds : fut[f] = "UpstreamError"

\* C8: whenever a _read_topic worker has terminated because of an error,
\* a completion future holds that error.
C8_ErrorsFunneled ==
    \A w \in Starters :
        (wpc[w] \in {"exited", "raised"} /\ werr[w] # "none")
        => \E f \in FutIds : fut[f] = werr[w]

C10_CloseReturns == cpc # "raised"

\* C11: once a close() call has returned, done_task is resolved, so a done()
\* call made afterwards does not suspend.
C11_SetAfterClose == closeReturned => FutDone(done_task)
C13_ProvisionOnceAfterStart ==
    /\ (\A s \in Starters : spc[s] = "idle") => topics_made + MakeProducerCalls = 0
    /\ topics_made + MakeProducerCalls <= 1
\* The field names of a schema document.
FieldNames(schema) == {schema.fields[i].name : i \in 1 .. Len(schema.fields)}

\* C15: every value handed to send_and_wait is a record whose keys are the
\* field names of the provisioned schema (timestamp, count, beat).
C15_ValueIsRecord ==
    \A i \in 1 .. Len(published) :
        DOMAIN published[i].value = FieldNames(MakeAvroSchemaHeartbeat)
\* The names of the three fixed fields.
FixedNames == {FixedFields[i].name : i \in 1 .. Len(FixedFields)}

\* The payload of the schema derivation example.
ExamplePayload ==
    << [name |-> "timestamp", py |-> "int", items |-> << >>, val |-> "5"],
       [name |-> "count", py |-> "int", items |-> << >>, val |-> "2"],
       [name |-> "beat", py |-> "str", items |-> << >>, val |-> "ok"],
       [name |-> "extra", py |-> "float", items |-> << >>, val |-> "1.5"] >>

\* The payload items that are not one of the fixed fields, in payload order.
OtherItems(c) == SelectSeq(c, LAMBDA it : it.name \notin FixedNames)

\* C14: the derived field list is the three fixed fields followed by the
\* payload's other fields in payload order, every field name once; for the
\* example payload it is timestamp:long, count:long, beat:string,
\* extra:double.
C14_SchemaFields ==
    derived.err = "none" =>
        LET fs == derived.fields
            others == OtherItems(payload)
        IN /\ Len(fs) >= Len(FixedFields)
           /\ SubSeq(fs, 1, Len(FixedFields)) = FixedFields
           /\ \A i, j \in 1 .. Len(fs) : i # j => fs[i].name # fs[j].name
           /\ Len(fs) = Len(FixedFields) + Len(others)
           /\ \A i \in 1 .. Len(others) :
                 i + Len(FixedFields) <= Len(fs) =>
                     fs[i + Len(FixedFields)].name = others[i].name
           /\ payload = ExamplePayload =>
                 [i \in 1 .. Len(fs) |-> << fs[i].name, fs[i].type >>]
                   = << << "timestamp", "long" >>, << "count", "long" >>,
                        << "beat", "string" >>, << "extra", "double" >> >>
\* The background loop close() would stop is in Done and done_task holds
\* an outcome.
LoopDoneWithOutcome ==
    /\ read_topic_task # "unset"
    /\ wpc[read_topic_task] = "exited"
    /\ FutDone(done_task)

\* A step of close() from its call down to its done_task test.
CloseCallStep ==
    /\ cpc # "setting"
    /\ \/ cpc' # cpc
       \/ \E w \in Starters : task'[w] = "cancelled" /\ task[w] # "cancelled"

\* C16: a close() called when the loop is already in Done with its outcome
\* set leaves done_task's value unchanged, cancels nothing and does not go
\* on to write the fallback value.
C16_CloseOnDoneCancelsNothing ==
    [][(LoopDoneWithOutcome /\ CloseCallStep) =>
          /\ done_task' = done_task /\ fut' = fut
          /\ task' = task
          /\ cpc' # "setting"]_vars

\* C16 (amended): a close() called when the loop is already in Done with
\* its outcome set leaves done_task, its value and the worker untouched and
\* does not go on to write; the only thing it may cancel is the handle of
\* the finished worker that the event loop has not yet marked done.  In
\* every state, close() goes on to write the fallback value only when its
\* test found done_task unresolved.
C16_CloseOnDoneKeepsOutcome ==
    [][/\ (LoopDoneWithOutcome /\ CloseCallStep) =>
             /\ done_task' = done_task /\ fut' = fut /\ writes' = writes
             /\ UNCHANGED workerVars
             /\ cpc' # "setting"
             /\ \A w \in Starters :
                   task'[w] # task[w] =>
                       /\ w = read_topic_task
                       /\ task[w] = "pending" /\ task'[w] = "cancelled"
       /\ (cpc # "setting" /\ cpc' = "setting") => ~FutDone(done_task)]_vars

\* C16: close() has returned on a completed loop whose handle it cancelled,
\* and the outcome is still the loop's.
C16_Witness ==
    /\ cpc = "returned" /\ closeReturned
    /\ producers_made = 1
    /\ LoopDoneWithOutcome
    /\ fut[done_task] = "True" /\ writes[done_task] = 1
    /\ task[read_topic_task] = "cancelled"
\* The errors of the downstream side: encoding a message, publishing it.
DownstreamErrors == {"KeyError", "IndexError", "PublishError"}

\* C17: once encoding or publishing the k-th message has failed in a loop,
\* that loop reads no further upstream message and attempts no further
\* publish, and when it leaves its except clause done_task is Failed with
\* that error.
C17_DownstreamErrorFails ==
    [][\A w \in Starters :
          werr[w] \in DownstreamErrors =>
              /\ nread'[w] = nread[w]
              /\ nextCalls'[w] = nextCalls[w]
              /\ sendCalls'[w] = sendCalls[w]
              /\ (wpc[w] = "except" /\ wpc'[w] # "except") =>
                     /\ wpc'[w] = "exited"
                     /\ fut'[done_task'] = werr[w]]_vars
\* C18: the future a pending done() call awaits is the future done_task
\* names, the one the loop resolves (and the one close() falls back on),
\* whatever the interleaving of the two start() calls and done().
C18_DoneAwaitsLoopFuture == dpc = "waiting" => dAwait = done_task
\* The step in which an executor thread begins _read_topic for w.
WorkerBegins(w) == wpc[w] = "queued" /\ wpc'[w] \notin {"queued", "never"}

====
